---- MODULE Spec2Model ----
(***************************************************************************)
(* The streaming hook of src/src/hooks/useStreamingResponse.ts as a state  *)
(* machine: the hook's React state, the closure snapshot its actions read, *)
(* the abort controller ref, every startStreaming() invocation as a        *)
(* session with its own abort signal and response body, and the observer   *)
(* callbacks.  Text is a sequence of one-character strings, so that        *)
(* split, trim, startsWith, slice and JSON.parse are computed character    *)
(* by character and a chunk boundary can fall anywhere.                    *)
(***************************************************************************)
EXTENDS Integers, Sequences, FiniteSets, TLC

VARIABLES
    state,              \* useState value: data, isStreaming, error, connectionStatus
    snapshot,           \* state.isStreaming as captured by the closures of the last render
    abortControllerRef, \* abortControllerRef.current: 0 (null) or the session whose controller it holds
    sess,               \* one record per startStreaming() invocation
    mounted,            \* FALSE once the owning component is unmounted
    last,               \* the last operation run and the observer callbacks it invoked
    env                 \* what the environment offers: start calls left, response bodies, chunking

vars == <<state, snapshot, abortControllerRef, sess, mounted, last, env>>

(***************************************************************************)
(* Bounds.                                                                 *)
(***************************************************************************)
MaxSessions == 2

Sessions == 1..MaxSessions

(***************************************************************************)
(* Text primitives (String.prototype.split / trim / startsWith / slice).   *)
(***************************************************************************)
LF == "\n"

Whitespace == {" ", "\t", "\r", "\n"}

\* s.slice(n) for 0 <= n
Drop(s, n) == IF n >= Len(s) THEN <<>> ELSE SubSeq(s, n + 1, Len(s))

Take(s, n) == IF n >= Len(s) THEN s ELSE SubSeq(s, 1, n)

RECURSIVE TrimStart(_)
TrimStart(s) ==
    IF s # <<>> /\ s[1] \in Whitespace THEN TrimStart(Tail(s)) ELSE s

RECURSIVE TrimEnd(_)
TrimEnd(s) ==
    IF s # <<>> /\ s[Len(s)] \in Whitespace THEN TrimEnd(Take(s, Len(s) - 1)) ELSE s

\* line.trim()
Trim(s) == TrimEnd(TrimStart(s))

\* line.startsWith(p)
StartsWith(s, p) == Len(s) >= Len(p) /\ SubSeq(s, 1, Len(p)) = p

\* index of the first LF of s, 0 when there is none
RECURSIVE IndexOfLF(_, _)
IndexOfLF(s, i) ==
    IF i > Len(s) THEN 0
    ELSE IF s[i] = LF THEN i
    ELSE IndexOfLF(s, i + 1)

\* chunk.split("\n"): the segments between line feeds, the last one included
\* even when it is empty or unterminated
RECURSIVE Split(_)
Split(s) ==
    LET i == IndexOfLF(s, 1) IN
    IF i = 0 THEN <<s>>
    ELSE <<Take(s, i - 1)>> \o Split(Drop(s, i))

\* a one-character-per-element text as a string (object keys, string values)
RECURSIVE Str(_)
Str(s) == IF s = <<>> THEN "" ELSE s[1] \o Str(Tail(s))

(***************************************************************************)
(* JSON.parse on the JSON subset the wire uses: objects, strings without   *)
(* escapes, non-negative integers, null, true, false, with whitespace      *)
(* between tokens.  A parse result is [ok, val, rest]; a value is          *)
(* [kind, val] with kind the typeof-like tag.                              *)
(***************************************************************************)
Digits == {"0", "1", "2", "3", "4", "5", "6", "7", "8", "9"}

DigitVal(c) ==
    CASE c = "0" -> 0 [] c = "1" -> 1 [] c = "2" -> 2 [] c = "3" -> 3
      [] c = "4" -> 4 [] c = "5" -> 5 [] c = "6" -> 6 [] c = "7" -> 7
      [] c = "8" -> 8 [] c = "9" -> 9

JSNull == [kind |-> "null", val |-> ""]
JSUndefined == [kind |-> "undefined", val |-> ""]
JSNumber(n) == [kind |-> "number", val |-> n]
JSString(t) == [kind |-> "string", val |-> t]
JSBool(b) == [kind |-> "boolean", val |-> b]
JSObject(f) == [kind |-> "object", val |-> f]

EmptyObject == <<>>

ParseFail == [ok |-> FALSE, val |-> JSUndefined, rest |-> <<>>]
ParseOk(v, r) == [ok |-> TRUE, val |-> v, rest |-> r]

\* the characters of a string literal up to its closing quote
RECURSIVE ScanString(_, _)
ScanString(s, acc) ==
    IF s = <<>> \/ s[1] = LF THEN ParseFail
    ELSE IF s[1] = "\"" THEN ParseOk(JSString(Str(acc)), Tail(s))
    ELSE ScanString(Tail(s), Append(acc, s[1]))

RECURSIVE ScanDigits(_, _)
ScanDigits(s, n) ==
    IF s # <<>> /\ s[1] \in Digits
    THEN ScanDigits(Tail(s), 10 * n + DigitVal(s[1]))
    ELSE ParseOk(JSNumber(n), s)

ParseNumber(s) ==
    IF s[1] = "0" /\ Len(s) > 1 /\ s[2] \in Digits THEN ParseFail
    ELSE ScanDigits(s, 0)

NullText == <<"n", "u", "l", "l">>
TrueText == <<"t", "r", "u", "e">>
FalseText == <<"f", "a", "l", "s", "e">>

RECURSIVE ParseValue(_)
RECURSIVE ParseMembers(_, _)

\* members of an object after "{" or ",": "key" : value, then "," or "}"
ParseMembers(s0, fields) ==
    LET s == TrimStart(s0) IN
    IF s = <<>> \/ s[1] # "\"" THEN ParseFail
    ELSE LET k == ScanString(Tail(s), <<>>) IN
         IF ~k.ok THEN ParseFail
         ELSE LET s1 == TrimStart(k.rest) IN
              IF s1 = <<>> \/ s1[1] # ":" THEN ParseFail
              ELSE LET v == ParseValue(Tail(s1)) IN
                   IF ~v.ok THEN ParseFail
                   ELSE LET s2 == TrimStart(v.rest)
                            \* a repeated key keeps its last value
                            f2 == (k.val.val :> v.val) @@ fields
                        IN  IF s2 = <<>> THEN ParseFail
                            ELSE IF s2[1] = "}" THEN ParseOk(JSObject(f2), Tail(s2))
                            ELSE IF s2[1] = "," THEN ParseMembers(Tail(s2), f2)
                            ELSE ParseFail

ParseObject(s) ==
    LET s1 == TrimStart(Tail(s)) IN
    IF s1 # <<>> /\ s1[1] = "}" THEN ParseOk(JSObject(EmptyObject), Tail(s1))
    ELSE ParseMembers(s1, EmptyObject)

ParseValue(s0) ==
    LET s == TrimStart(s0) IN
    IF s = <<>> THEN ParseFail
    ELSE IF s[1] = "{" THEN ParseObject(s)
    ELSE IF s[1] = "\"" THEN ScanString(Tail(s), <<>>)
    ELSE IF s[1] \in Digits THEN ParseNumber(s)
    ELSE IF StartsWith(s, NullText) THEN ParseOk(JSNull, Drop(s, 4))
    ELSE IF StartsWith(s, TrueText) THEN ParseOk(JSBool(TRUE), Drop(s, 4))
    ELSE IF StartsWith(s, FalseText) THEN ParseOk(JSBool(FALSE), Drop(s, 5))
    ELSE ParseFail

\* JSON.parse(text): ok is FALSE where JSON.parse throws a SyntaxError
JSONParse(text) ==
    LET r == ParseValue(text) IN
    IF r.ok /\ TrimStart(r.rest) = <<>> THEN r ELSE ParseFail

(***************************************************************************)
(* The wire: response bodies the server may send.                          *)
(***************************************************************************)
\* the record prefix tested by line.startsWith("data: ")
DataPrefix == <<"d", "a", "t", "a", ":", " ">>

\* the terminator sentinel compared with jsonStr
DoneText == <<"[", "D", "O", "N", "E", "]">>

Quote(s) == <<"\"">> \o s \o <<"\"">>

\* one newline-terminated line `data: <payload>`
Record(payload) == DataPrefix \o payload \o <<LF>>

TextA1 == <<"{">> \o Quote(<<"a">>) \o <<":", "1", "}">>
TextA2 == <<"{">> \o Quote(<<"a">>) \o <<":", "2", "}">>
TextB2 == <<"{">> \o Quote(<<"b">>) \o <<":", "2", "}">>
TextFinish ==
    <<"{">> \o Quote(<<"t", "y", "p", "e">>) \o <<":">>
            \o Quote(<<"f", "i", "n", "i", "s", "h">>) \o <<"}">>
TextWrapped ==
    <<"{">> \o Quote(<<"t", "y", "p", "e">>) \o <<":">>
            \o Quote(<<"o", "b", "j", "e", "c", "t">>) \o <<",">>
            \o Quote(<<"o", "b", "j", "e", "c", "t">>) \o <<":">>
            \o <<"{">> \o Quote(<<"b">>) \o <<":", "3", "}", "}">>
TextBad == <<"{", "b", "a", "d">>
TextComment == <<":", " ", "h", "i", LF>>

BodyList ==
    << Record(TextA1) \o Record(TextB2),                        \* 1
       Record(TextA1) \o Record(DoneText) \o Record(TextB2),    \* 2
       Record(TextA1) \o Record(TextB2) \o Record(TextA2),      \* 3
       Record(TextA1) \o Record(TextBad) \o Record(TextB2),     \* 4
       Record(TextA1) \o Record(TextFinish) \o Record(TextB2),  \* 5
       Record(TextFinish),                                      \* 6
       Record(TextA1) \o Record(TextWrapped),                   \* 7
       <<LF>> \o TextComment \o Record(TextA1),                 \* 8
       Record(NullText) \o Record(<<"7">>) \o Record(TextB2) >> \* 9

\* the bodies each profile of the environment draws from
Bodies(profile) ==
    IF profile \in {"app", "whole"} THEN {1} ELSE 1..Len(BodyList)

BodyOf(s) == IF sess[s].body = 0 THEN <<>> ELSE BodyList[sess[s].body]

\* where the transport may end the next chunk of session s: anywhere
\* ("bytes"), at the end of the body ("whole"), or right after a line feed
\* (the other profiles)
ChunkEnds(s) ==
    LET b == BodyOf(s) IN
    {e \in (sess[s].pos + 1)..Len(b) :
        \/ env.profile = "bytes"
        \/ env.profile = "whole" /\ e = Len(b)
        \/ env.profile \notin {"bytes", "whole"} /\ b[e] = LF}

(***************************************************************************)
(* The hook's state and its update helpers.  A handler threads a context   *)
(* ctx = [state, notes, returned]: the state after the updates queued so   *)
(* far (every setState call passes an updater of the previous state, so    *)
(* the queue applies in call order), the observer callbacks invoked so     *)
(* far, and whether processStream has returned.                            *)
(***************************************************************************)
Null == "<null>"

InitialState ==
    [data |-> EmptyObject, isStreaming |-> FALSE, error |-> Null,
     connectionStatus |-> "idle"]

\* {...a, ...b}
Spread(a, b) == b @@ a

Ctx(st) == [state |-> st, notes |-> <<>>, returned |-> FALSE]

\* options.<cb>?.(payload)
Notify(ctx, cb, payload) ==
    [ctx EXCEPT !.notes = Append(@, [cb |-> cb, payload |-> payload])]

\* setState((prev) => ({...prev, ...updates})); React drops the update of an
\* unmounted component
updateState(ctx, updates) ==
    IF mounted THEN [ctx EXCEPT !.state = Spread(@, updates)] ELSE ctx

updateConnectionStatus(ctx, status) ==
    Notify(updateState(ctx, [connectionStatus |-> status]),
           "onStatusChange", JSString(status))

\* the merge with the spread order swapped: {...obj, ...prev.data}
MergeDataPrevWins(ctx, obj) ==
    updateState(ctx, [data |-> Spread(obj, ctx.state.data)])

\* setState((prev) => ({...prev, data: {...prev.data, ...obj}}))
MergeData(ctx, obj) ==
    updateState(ctx, [data |-> Spread(ctx.state.data, obj)])

\* the completion that does not tell the observer
CompleteSilent(ctx) ==
    updateState(updateConnectionStatus(ctx, "completed"), [isStreaming |-> FALSE])

\* updateConnectionStatus("completed"); updateState({isStreaming: false});
\* options.onComplete?.()
Complete(ctx) ==
    Notify(updateState(updateConnectionStatus(ctx, "completed"),
                       [isStreaming |-> FALSE]),
           "onComplete", JSUndefined)

(***************************************************************************)
(* Exceptions and the two catch blocks.                                    *)
(***************************************************************************)
AbortError == [name |-> "AbortError", message |-> "The operation was aborted."]
HttpError == [name |-> "Error", message |-> "HTTP error! status: 500"]
NoBodyError == [name |-> "Error", message |-> "No response body"]
NetworkError == [name |-> "TypeError", message |-> "Failed to fetch"]

\* catch (streamError) without the AbortError test
CatchStreamNoAbortTest(ctx, e) ==
    LET errorMessage == "Error processing stream" IN
    Notify(updateConnectionStatus(
               updateState(ctx, [error |-> errorMessage, isStreaming |-> FALSE]),
               "error"),
           "onError", JSString(errorMessage))

\* catch (streamError) that rethrows to the catch of startStreaming
CatchStreamRethrows(ctx, e) ==
    IF e.name = "AbortError"
    THEN updateConnectionStatus(ctx, "stopped")
    ELSE LET errorMessage == "Error processing stream"
             outerMessage == "Failed to start streaming: " \o e.message
             inner == Notify(updateConnectionStatus(
                                 updateState(ctx, [error |-> errorMessage,
                                                   isStreaming |-> FALSE]),
                                 "error"),
                             "onError", JSString(errorMessage))
         IN  Notify(updateConnectionStatus(
                        updateState(inner, [error |-> outerMessage,
                                            isStreaming |-> FALSE]),
                        "error"),
                    "onError", JSString(outerMessage))

\* catch (streamError) that returns on AbortError without a status change
CatchStreamSilentAbort(ctx, e) ==
    IF e.name = "AbortError"
    THEN ctx
    ELSE LET errorMessage == "Error processing stream" IN
         Notify(updateConnectionStatus(
                    updateState(ctx, [error |-> errorMessage, isStreaming |-> FALSE]),
                    "error"),
                "onError", JSString(errorMessage))

\* catch (streamError) of processStream
CatchStream(ctx, e) ==
    IF e.name = "AbortError"
    THEN updateConnectionStatus(ctx, "stopped")
    ELSE LET errorMessage == "Error processing stream" IN
         Notify(updateConnectionStatus(
                    updateState(ctx, [error |-> errorMessage, isStreaming |-> FALSE]),
                    "error"),
                "onError", JSString(errorMessage))

\* catch (err) that reports the generic message and keeps isStreaming
CatchStartGenericMessage(ctx, e) ==
    IF e.name = "AbortError"
    THEN updateConnectionStatus(ctx, "stopped")
    ELSE LET errorMessage == "Failed to start streaming" IN
         Notify(updateConnectionStatus(
                    updateState(ctx, [error |-> errorMessage]),
                    "error"),
                "onError", JSString(errorMessage))

\* catch (err) of startStreaming
CatchStart(ctx, e) ==
    IF e.name = "AbortError"
    THEN updateConnectionStatus(ctx, "stopped")
    ELSE LET errorMessage == "Failed to start streaming: " \o e.message IN
         Notify(updateConnectionStatus(
                    updateState(ctx, [error |-> errorMessage, isStreaming |-> FALSE]),
                    "error"),
                "onError", JSString(errorMessage))

(***************************************************************************)
(* The loop body of processStream.                                         *)
(***************************************************************************)
\* the own enumerable properties a spread of v copies
SpreadableFields(v) == IF v.kind = "object" THEN v.val ELSE EmptyObject

\* data.<key> of a parsed value that is not null
Field(v, key) ==
    IF v.kind = "object" /\ key \in DOMAIN v.val THEN v.val[key] ELSE JSUndefined

\* the body of the try block after JSON.parse succeeded with `data`
HandleParsed(ctx, data) ==
    LET merged ==
            IF data.kind = "object"
            THEN Notify(MergeData(ctx, data.val), "onData", data)
            ELSE ctx
        type == Field(data, "type")
    IN  IF data.kind = "null" THEN ctx   \* data.type throws, caught as parseError
        ELSE IF type = JSString("object")
        THEN Notify(MergeData(merged, SpreadableFields(Field(data, "object"))),
                    "onData", Field(data, "object"))
        ELSE IF type = JSString("finish")
        THEN [Complete(merged) EXCEPT !.returned = TRUE]
        ELSE merged

\* the loop body with `continue` in place of the sentinel's `return`
ProcessLineSentinelContinues(ctx, line) ==
    IF Trim(line) = <<>> THEN ctx
    ELSE IF ~StartsWith(line, DataPrefix) THEN ctx
    ELSE LET jsonStr == Trim(Drop(line, 6)) IN
         IF jsonStr = DoneText
         THEN Complete(ctx)
         ELSE LET r == JSONParse(jsonStr) IN
              IF r.ok THEN HandleParsed(ctx, r.val) ELSE ctx

\* the loop body without the inner try/catch: a SyntaxError reaches
\* catch (streamError)
ProcessLineParseFatal(ctx, line) ==
    IF Trim(line) = <<>> THEN ctx
    ELSE IF ~StartsWith(line, DataPrefix) THEN ctx
    ELSE LET jsonStr == Trim(Drop(line, 6)) IN
         IF jsonStr = DoneText
         THEN [Complete(ctx) EXCEPT !.returned = TRUE]
         ELSE LET r == JSONParse(jsonStr) IN
              IF r.ok THEN HandleParsed(ctx, r.val)
              ELSE [CatchStream(ctx, [name |-> "SyntaxError", message |-> "Unexpected token"])
                       EXCEPT !.returned = TRUE]

\* the loop body that treats a line without the prefix as a stream error
ProcessLineUnprefixedFatal(ctx, line) ==
    IF Trim(line) = <<>> THEN ctx
    ELSE IF ~StartsWith(line, DataPrefix)
    THEN [CatchStream(ctx, [name |-> "Error", message |-> "Unexpected line"])
             EXCEPT !.returned = TRUE]
    ELSE LET jsonStr == Trim(Drop(line, 6)) IN
         IF jsonStr = DoneText
         THEN [Complete(ctx) EXCEPT !.returned = TRUE]
         ELSE LET r == JSONParse(jsonStr) IN
              IF r.ok THEN HandleParsed(ctx, r.val) ELSE ctx

\* one iteration of `for (const line of lines)`
ProcessLine(ctx, line) ==
    IF Trim(line) = <<>> THEN ctx
    ELSE IF ~StartsWith(line, DataPrefix) THEN ctx
    ELSE LET jsonStr == Trim(Drop(line, 6)) IN
         IF jsonStr = DoneText
         THEN [Complete(ctx) EXCEPT !.returned = TRUE]
         ELSE LET r == JSONParse(jsonStr) IN
              IF r.ok THEN HandleParsed(ctx, r.val) ELSE ctx

\* the for loop over the lines of one chunk, left at the first return
RECURSIVE ProcessLines(_, _)
ProcessLines(ctx, lines) ==
    IF lines = <<>> \/ ctx.returned THEN ctx
    ELSE ProcessLines(ProcessLine(ctx, Head(lines)), Tail(lines))

\* decoder.decode(value, {stream: true}) of an ASCII chunk, then the split
\* and the loop
ProcessChunk(ctx, chunk) == ProcessLines(ctx, Split(chunk))

(***************************************************************************)
(* Sessions: one per startStreaming() invocation that passed the guard.    *)
(* pc is where the invocation is suspended: "fetch" (await fetch), "read"  *)
(* (await reader.read()), "done" (returned), "none" (not started).         *)
(* aborted is its AbortController's signal.aborted; cancelled records that *)
(* stopStreaming() was called while it was in flight.                      *)
(***************************************************************************)
NoSession ==
    [pc |-> "none", aborted |-> FALSE, cancelled |-> FALSE, body |-> 0, pos |-> 0]

InFlight(s) == sess[s].pc \in {"fetch", "read"}

Op(op, s, ctx) == [op |-> op, s |-> s, notes |-> ctx.notes]

\* abortControllerRef.current.abort() when the ref is set
AbortCurrent(ss) ==
    IF abortControllerRef # 0
    THEN [ss EXCEPT ![abortControllerRef].aborted = TRUE]
    ELSE ss

\* `if (state.isStreaming) return;` read from the closure of the last render
StartGuard == snapshot

\* a pending fetch or read settles with the chunk/response (TRUE) or rejects
\* with an AbortError (FALSE), by the signal passed to fetch
Settles(s) == ~sess[s].aborted

Init0(profile, starts) ==
    /\ state = InitialState
    /\ snapshot = FALSE
    /\ abortControllerRef = 0
    /\ sess = [s \in Sessions |-> NoSession]
    /\ mounted = TRUE
    /\ last = [op |-> "init", s |-> 0, notes |-> <<>>]
    /\ env = [profile |-> profile, starts |-> starts]

\* a re-render hands the caller closures over the current state
Render ==
    /\ mounted
    /\ snapshot # state.isStreaming
    /\ snapshot' = state.isStreaming
    /\ last' = [op |-> "render", s |-> 0, notes |-> <<>>]
    /\ UNCHANGED <<state, abortControllerRef, sess, env>>
    /\ UNCHANGED mounted

\* startStreaming() up to its first await
startStreaming ==
    /\ mounted
    /\ IF StartGuard
       THEN /\ last' = [op |-> "start", s |-> 0, notes |-> <<>>]
            /\ UNCHANGED <<state, abortControllerRef, sess, env>>
       ELSE /\ env.starts > 0
            /\ LET s == Cardinality({x \in Sessions : sess[x].pc # "none"}) + 1
                   c1 == updateState(Ctx(state),
                             [isStreaming |-> TRUE, error |-> Null, data |-> EmptyObject])
                   c2 == updateConnectionStatus(c1, "connecting")
               IN  /\ s \in Sessions
                   /\ state' = c2.state
                   /\ abortControllerRef' = s
                   /\ sess' = [sess EXCEPT ![s] = [NoSession EXCEPT !.pc = "fetch"]]
                   /\ last' = Op("start", s, c2)
            /\ env' = [env EXCEPT !.starts = @ - 1]
    /\ UNCHANGED <<snapshot, mounted>>

\* stopStreaming()
stopStreaming ==
    /\ mounted
    /\ LET c == updateConnectionStatus(
                    updateState(Ctx(state), [isStreaming |-> FALSE]), "stopped")
           aborted == AbortCurrent(sess)
       IN  /\ sess' = [s \in Sessions |->
                          IF InFlight(s) THEN [aborted[s] EXCEPT !.cancelled = TRUE]
                          ELSE aborted[s]]
           /\ state' = c.state
           /\ last' = Op("stop", 0, c)
    /\ UNCHANGED <<snapshot, abortControllerRef, mounted, env>>

\* the reset updates without the data field
ResetUpdatesKeepData ==
    [isStreaming |-> FALSE, error |-> Null, connectionStatus |-> "idle"]

\* the object reset() passes to updateState
ResetUpdates ==
    [data |-> EmptyObject, isStreaming |-> FALSE, error |-> Null,
     connectionStatus |-> "idle"]

\* reset()
reset ==
    /\ mounted
    /\ LET c == updateState(Ctx(state), ResetUpdates)
       IN  /\ sess' = AbortCurrent(sess)
           /\ state' = c.state
           /\ last' = Op("reset", 0, c)
    /\ UNCHANGED <<snapshot, abortControllerRef, mounted, env>>

\* the cleanup of the unmount effect
Unmount ==
    /\ mounted
    /\ mounted' = FALSE
    /\ sess' = AbortCurrent(sess)
    /\ last' = [op |-> "unmount", s |-> 0, notes |-> <<>>]
    /\ UNCHANGED <<state, snapshot, abortControllerRef, env>>

\* session s ends with context c
Finish(s, op, c) ==
    /\ state' = c.state
    /\ sess' = [sess EXCEPT ![s].pc = "done"]
    /\ last' = Op(op, s, c)
    /\ UNCHANGED <<snapshot, abortControllerRef, mounted, env>>

\* fetch resolves with an ok response that has a body
Respond(s) ==
    /\ sess[s].pc = "fetch"
    /\ Settles(s)
    /\ \E b \in Bodies(env.profile) :
          LET c == updateConnectionStatus(Ctx(state), "connected") IN
          /\ state' = c.state
          /\ sess' = [sess EXCEPT ![s].pc = "read", ![s].body = b]
          /\ last' = Op("respond", s, c)
    /\ UNCHANGED <<snapshot, abortControllerRef, mounted, env>>

\* fetch rejects (network failure), or resolves with a non-ok status or
\* without a body, and the throw reaches catch (err)
Reject(s) ==
    /\ sess[s].pc = "fetch"
    /\ Settles(s)
    /\ \E e \in {HttpError, NoBodyError, NetworkError} :
          Finish(s, "reject", CatchStart(Ctx(state), e))

\* the pending fetch rejects with the AbortError of the aborted signal
AbortFetch(s) ==
    /\ sess[s].pc = "fetch"
    /\ ~Settles(s)
    /\ Finish(s, "abort", CatchStart(Ctx(state), AbortError))

\* reader.read() resolves with a chunk, and the chunk is processed
ReadChunk(s) ==
    /\ sess[s].pc = "read"
    /\ Settles(s)
    /\ \E e \in ChunkEnds(s) :
          LET chunk == SubSeq(BodyOf(s), sess[s].pos + 1, e)
              c == ProcessChunk(Ctx(state), chunk)
          IN  /\ state' = c.state
              /\ sess' = [sess EXCEPT ![s].pos = e,
                                      ![s].pc = IF c.returned THEN "done" ELSE "read"]
              /\ last' = Op("chunk", s, c)
    /\ UNCHANGED <<snapshot, abortControllerRef, mounted, env>>

\* reader.read() resolves with done: true
ReadDone(s) ==
    /\ sess[s].pc = "read"
    /\ Settles(s)
    /\ sess[s].pos = Len(BodyOf(s))
    /\ Finish(s, "eof", Complete(Ctx(state)))

\* reader.read() rejects because the connection failed
ReadFail(s) ==
    /\ sess[s].pc = "read"
    /\ Settles(s)
    /\ Finish(s, "readfail", CatchStream(Ctx(state), NetworkError))

\* the pending read rejects with the AbortError of the aborted signal
AbortRead(s) ==
    /\ sess[s].pc = "read"
    /\ ~Settles(s)
    /\ Finish(s, "abort", CatchStream(Ctx(state), AbortError))

SessionStep(s) ==
    \/ Respond(s)
    \/ Reject(s)
    \/ AbortFetch(s)
    \/ ReadChunk(s)
    \/ ReadDone(s)
    \/ ReadFail(s)
    \/ AbortRead(s)

Next ==
    \/ Render
    \/ startStreaming
    \/ stopStreaming
    \/ reset
    \/ Unmount
    \/ \E s \in Sessions : SessionStep(s)

\* the application: several start calls, whole-line chunks
Init == Init0("app", MaxSessions)

Spec == Init /\ [][Next]_vars

\* one request whose body arrives in chunks cut at arbitrary positions
InitBytes == Init0("bytes", 1)

SpecBytes == InitBytes /\ [][Next]_vars

\* one request whose chunks each hold whole lines
InitLines == Init0("lines", 1)

SpecLines == InitLines /\ [][Next]_vars

\* the transport answers the pending request of session s, or ends, fails
\* or aborts its pending read
TransportSettles(s) ==
    \/ Respond(s)
    \/ Reject(s)
    \/ AbortFetch(s)
    \/ ReadDone(s)
    \/ ReadFail(s)
    \/ AbortRead(s)

\* the application over a transport that eventually answers every request
\* and eventually ends, fails or aborts every pending read (a body is
\* finite, so only finitely many chunks come before that)
Fairness == \A s \in Sessions : WF_vars(TransportSettles(s))

\* several start calls, each body delivered as one chunk
InitFair == Init0("whole", MaxSessions)

SpecFair == InitFair /\ [][Next]_vars /\ Fairness

(***************************************************************************)
(* Vocabulary of the properties: what a line of the wire is, and the       *)
(* merge a stream of records denotes, defined on the whole text and        *)
(* independently of the chunk loop.                                        *)
(***************************************************************************)
SessionOps == {"respond", "reject", "abort", "chunk", "eof", "readfail"}

HasNote(notes, cb) == \E i \in DOMAIN notes : notes[i].cb = cb

CountNotes(notes, cb) == Cardinality({i \in DOMAIN notes : notes[i].cb = cb})

IsData(line) == Trim(line) # <<>> /\ StartsWith(line, DataPrefix)

Payload(line) == Trim(Drop(line, 6))

IsSentinel(line) == IsData(line) /\ Payload(line) = DoneText

IsMalformed(line) ==
    IsData(line) /\ Payload(line) # DoneText /\ ~JSONParse(Payload(line)).ok

TypeOf(line) ==
    IF IsData(line) /\ Payload(line) # DoneText /\ JSONParse(Payload(line)).ok
    THEN Field(JSONParse(Payload(line)).val, "type")
    ELSE JSUndefined

IsFinish(line) == TypeOf(line) = JSString("finish")

IsWrapped(line) == TypeOf(line) = JSString("object")

\* a line `data: {...}` holding a JSON object that is no wrapper or finish record
IsPlainRecord(line) ==
    /\ IsData(line)
    /\ Payload(line) # DoneText
    /\ JSONParse(Payload(line)).ok
    /\ JSONParse(Payload(line)).val.kind = "object"
    /\ ~IsFinish(line)
    /\ ~IsWrapped(line)

\* index of the first line satisfying Test, 0 when there is none
FirstLine(lines, Test(_)) ==
    IF \E i \in DOMAIN lines : Test(lines[i])
    THEN CHOOSE i \in DOMAIN lines :
            Test(lines[i]) /\ \A j \in 1..(i - 1) : ~Test(lines[j])
    ELSE 0

IsTerminator(line) == IsSentinel(line) \/ IsFinish(line)

\* the lines of a text that ends with a line feed
LinesOf(text) ==
    LET l == Split(text) IN SubSeq(l, 1, Len(l) - 1)

\* text is newline-terminated plain records only
IsRecordStream(text) ==
    /\ text # <<>>
    /\ text[Len(text)] = LF
    /\ \A i \in DOMAIN LinesOf(text) : IsPlainRecord(LinesOf(text)[i])

\* text holds neither a terminator nor a wrapper record
IsPlainStream(text) ==
    /\ text # <<>>
    /\ text[Len(text)] = LF
    /\ \A i \in DOMAIN LinesOf(text) :
          ~IsTerminator(LinesOf(text)[i]) /\ ~IsWrapped(LinesOf(text)[i])

\* shallow merge: b's keys overwrite a's, the other keys are kept
Override(a, b) ==
    [k \in DOMAIN a \cup DOMAIN b |-> IF k \in DOMAIN b THEN b[k] ELSE a[k]]

\* the left-to-right shallow merge of the plain records among lines
RECURSIVE MergeAll(_, _)
MergeAll(acc, lines) ==
    IF lines = <<>> THEN acc
    ELSE MergeAll(IF IsPlainRecord(Head(lines))
                  THEN Override(acc, JSONParse(Payload(Head(lines))).val.val)
                  ELSE acc,
                  Tail(lines))

\* the step just taken processed a chunk of session s
ChunkStep(s) == last'.op = "chunk" /\ last'.s = s

\* the lines of that chunk, as the loop saw them
StepLines(s) == Split(SubSeq(BodyOf(s), sess[s].pos + 1, sess'[s].pos))

\* what the step left behind, as a context
StepResult(s) ==
    [state |-> state', notes |-> last'.notes, returned |-> sess'[s].pc = "done"]

(***************************************************************************)
(* Claims.                                                                 *)
(***************************************************************************)

\* C1: when a session whose body is a sequence of newline-terminated plain
\* `data: {json}` records reaches end-of-stream, the accumulated result is
\* the left-to-right shallow merge of all its records, wherever the chunk
\* boundaries fell (specification SpecBytes cuts chunks at any position).
C1_MergeIndependentOfChunking ==
    (last.op = "eof" /\ IsRecordStream(BodyOf(last.s)))
        => /\ state.connectionStatus = "completed"
           /\ state.data = MergeAll(EmptyObject, LinesOf(BodyOf(last.s)))

\* C2: when every chunk holds whole lines (specification SpecLines) and the
\* body has no terminator or wrapper record, end-of-stream leaves status
\* completed, isStreaming false and the accumulated result equal to the
\* left-to-right shallow merge of the records; the body `data: {"a":1}`,
\* `data: {"b":2}` gives {a: 1, b: 2}.
C2_WholeLineChunksMergeInOrder ==
    (last.op = "eof" /\ IsPlainStream(BodyOf(last.s)))
        => /\ state.connectionStatus = "completed"
           /\ ~state.isStreaming
           /\ state.data = MergeAll(EmptyObject, LinesOf(BodyOf(last.s)))
           /\ sess[last.s].body = 1
                 => state.data = [a |-> JSNumber(1), b |-> JSNumber(2)]

\* a session read a1, b2, a2 to the end: the later a overwrote the earlier
C2_Witness ==
    /\ last.op = "eof"
    /\ sess[last.s].body = 3
    /\ state.connectionStatus = "completed"
    /\ state.data = [a |-> JSNumber(2), b |-> JSNumber(2)]

\* C3: a chunk whose first terminator line is `data: [DONE]`, processed in
\* status connected, ends the session with status completed and isStreaming
\* false, and leaves exactly what the lines before the sentinel and the
\* completion produce: no later line of the chunk is processed; and a
\* session that has returned never takes a step again, so no later chunk is.
C3_SentinelEndsSession ==
    [][\A s \in Sessions :
         /\ ( /\ ChunkStep(s)
              /\ mounted
              /\ state.connectionStatus = "connected"
              /\ FirstLine(StepLines(s), IsTerminator) # 0
              /\ IsSentinel(StepLines(s)[FirstLine(StepLines(s), IsTerminator)]) )
            => LET i == FirstLine(StepLines(s), IsTerminator)
                   before == SubSeq(StepLines(s), 1, i - 1)
               IN  /\ sess'[s].pc = "done"
                   /\ state'.connectionStatus = "completed"
                   /\ ~state'.isStreaming
                   /\ StepResult(s) =
                        [Complete(ProcessLines(Ctx(state), before)) EXCEPT !.returned = TRUE]
         /\ sess[s].pc = "done"
            => /\ sess'[s].pc = "done"
               /\ sess'[s].pos = sess[s].pos
               /\ ~(last'.s = s /\ last'.op \in SessionOps)
      ]_vars

\* one chunk held a1, the sentinel and b2: the session completed with a
\* only, although the b2 line followed the sentinel in the same chunk
C3_Witness ==
    /\ last.op = "chunk"
    /\ sess[last.s].body = 2
    /\ sess[last.s].pc = "done"
    /\ sess[last.s].pos = Len(BodyList[2])
    /\ CountNotes(last.notes, "onData") = 1
    /\ CountNotes(last.notes, "onComplete") = 1
    /\ state.connectionStatus = "completed"
    /\ state.data = [a |-> JSNumber(1)]

C5_NoDataAfterCancel ==
    \A s \in Sessions :
        (sess[s].cancelled /\ last.s = s /\ last.op \in SessionOps)
            => ~HasNote(last.notes, "onData")

C7_StartWhileActiveIsNoOp ==
    [][(last'.op = "start" /\ state.connectionStatus \in {"connecting", "connected"})
          => /\ state' = state
             /\ sess' = sess
             /\ abortControllerRef' = abortControllerRef
      ]_vars

\* C8: at most one session has a pending fetch or read.
C8_AtMostOneSessionInFlight ==
    Cardinality({s \in Sessions : InFlight(s)}) <= 1

NotMalformed(line) == ~IsMalformed(line)

C10_FinishMergesNothing ==
    [][\A s \in Sessions :
         ( /\ ChunkStep(s)
           /\ mounted
           /\ state.connectionStatus = "connected"
           /\ FirstLine(StepLines(s), IsTerminator) # 0
           /\ IsFinish(StepLines(s)[FirstLine(StepLines(s), IsTerminator)]) )
         => LET i == FirstLine(StepLines(s), IsTerminator)
                before == ProcessLines(Ctx(state), SubSeq(StepLines(s), 1, i - 1))
            IN  /\ sess'[s].pc = "done"
                /\ state'.connectionStatus = "completed"
                /\ state'.data = before.state.data
                /\ CountNotes(last'.notes, "onData") = CountNotes(before.notes, "onData")
      ]_vars

\* the object carried by a wrapper record `{"type":"object","object":O}`
WrappedObject(line) == Field(JSONParse(Payload(line)).val, "object")

\* C11: a chunk holding one wrapper record `{"type":"object","object":O}`
\* (and otherwise only blank lines) merges O instead of the outer object:
\* the accumulated result afterwards is the previous result overridden by
\* the keys of O, with no `type` or `object` key added, and onData is called
\* exactly once, with O.
C11_WrapperMergesNestedOnly ==
    [][\A s \in Sessions :
         ( /\ ChunkStep(s)
           /\ mounted
           /\ \E i \in DOMAIN StepLines(s) :
                 /\ IsWrapped(StepLines(s)[i])
                 /\ WrappedObject(StepLines(s)[i]).kind = "object"
                 /\ \A j \in DOMAIN StepLines(s) \ {i} : Trim(StepLines(s)[j]) = <<>> )
         => LET i == FirstLine(StepLines(s), IsWrapped)
                O == WrappedObject(StepLines(s)[i])
            IN  /\ state'.data = Override(state.data, O.val)
                /\ CountNotes(last'.notes, "onData") = 1
                /\ \A n \in DOMAIN last'.notes :
                      last'.notes[n].cb = "onData" => last'.notes[n].payload = O
      ]_vars

\* the failures of the request before any body is read
StartFailures == {HttpError, NoBodyError, NetworkError}

\* C12: when the request of session s fails before a body is read (a
\* non-success HTTP status such as 500, or a response without body), the
\* session ends without ever having been connected: the status becomes error,
\* the error message is non-null and names the failure (the status code or
\* the missing body), onError is called exactly once, with that message,
\* isStreaming is false, the failing session has merged nothing (the result
\* is unchanged, and empty when no other session was started), and no other
\* callback than the status change to error is invoked.
C12_FailedRequestEndsInError ==
    [][\A s \in Sessions :
         (last'.op = "reject" /\ last'.s = s /\ mounted)
         => /\ sess[s].pc = "fetch" /\ sess[s].body = 0
            /\ sess'[s].pc = "done"
            /\ state'.connectionStatus = "error"
            /\ state'.error # Null
            /\ \E e \in StartFailures :
                  state'.error = "Failed to start streaming: " \o e.message
            /\ state'.error \in {"Failed to start streaming: HTTP error! status: 500",
                                 "Failed to start streaming: No response body",
                                 "Failed to start streaming: Failed to fetch"}
            /\ ~state'.isStreaming
            /\ state'.data = state.data
            /\ (\A t \in Sessions \ {s} : sess[t].pc = "none")
               => state'.data = EmptyObject
            /\ last'.notes =
                 << [cb |-> "onStatusChange", payload |-> JSString("error")],
                    [cb |-> "onError", payload |-> JSString(state'.error)] >>
      ]_vars

\* a response with status 500 ended the only session in status error
C12_Witness ==
    /\ last.op = "reject"
    /\ sess[last.s].pc = "done"
    /\ \A t \in Sessions \ {last.s} : sess[t].pc = "none"
    /\ state.connectionStatus = "error"
    /\ state.error = "Failed to start streaming: HTTP error! status: 500"
    /\ ~state.isStreaming
    /\ state.data = EmptyObject
    /\ CountNotes(last.notes, "onError") = 1

TerminalStatuses == {"completed", "error", "stopped"}

\* C13: a session reaches exactly one terminal status: once the status is
\* completed, error or stopped, no step changes it to a different terminal
\* status (startStreaming moves it to connecting and reset to idle, which are
\* not terminal, so any change between two terminal statuses is a violation).
C13_OneTerminalStatus ==
    [][(state.connectionStatus \in TerminalStatuses
          /\ state'.connectionStatus \in TerminalStatuses)
       => state'.connectionStatus = state.connectionStatus]_vars

\* C14: stopStreaming with no active session is a no-op: called in status
\* idle, completed or error it leaves the status, the accumulated result and
\* the error as they were (stopped is entered only
\* from connecting or connected); called in status stopped, as a second call
\* in a row is, it changes nothing either.
C14_StopWithoutSessionIsNoOp ==
    [][(last'.op = "stop"
          /\ state.connectionStatus \in {"idle", "completed", "error", "stopped"})
       => /\ state'.connectionStatus = state.connectionStatus
          /\ state'.data = state.data
          /\ state'.error = state.error
      ]_vars

\* the payloads of the calls of callback cb among notes, in order
PayloadsOf(notes, cb) ==
    LET IsCb(n) == n.cb = cb
        sel == SelectSeq(notes, IsCb)
    IN  [i \in DOMAIN sel |-> sel[i].payload]

\* C15: every step that changes the connection status, the change to idle by
\* reset included, invokes onStatusChange exactly once, with the new status;
\* and every chunk step that changes the accumulated result by a merge
\* invokes onData.
C15_EveryChangeIsNotified ==
    [][/\ (state'.connectionStatus # state.connectionStatus)
          => PayloadsOf(last'.notes, "onStatusChange")
                = << JSString(state'.connectionStatus) >>
       /\ (last'.op = "chunk" /\ state'.data # state.data)
          => HasNote(last'.notes, "onData")
      ]_vars

\* C16: after the unmount every session of the instance that is still in
\* flight has been aborted, so no session reads a chunk and none invokes
\* onData any more, whatever sequence of start, stop and reset came before.
C16_UnmountAbortsEverySession ==
    ~mounted =>
        /\ \A s \in Sessions : InFlight(s) => sess[s].aborted
        /\ last.op \notin {"respond", "chunk", "eof"}
        /\ ~HasNote(last.notes, "onData")

\* C17: the cancellation handler of an aborted session, which runs after the
\* stop, reset or new start that ended the session, mutates nothing: the
\* status, isStreaming, the error and the accumulated result are after the
\* handler what they were before it (so the status stays idle after reset,
\* and a session started after a stop keeps its own status).
C17_NoLateMutation ==
    [][(last'.op = "abort") => (state' = state)]_vars

\* C18: when a read of session s fails with an exception that is not a
\* cancellation, the session ends: the status becomes error, the error is
\* the generic message of the stream handler, isStreaming is false, onError
\* is called exactly once, with that message, the data merged so far is
\* kept, and the failure stops there: the handler of startStreaming does not
\* run (no second onError, no `Failed to start streaming` message).
C18_ReadFailureEndsInError ==
    [][\A s \in Sessions :
         (last'.op = "readfail" /\ last'.s = s /\ mounted)
         => /\ sess[s].pc = "read"
            /\ sess'[s].pc = "done"
            /\ state'.connectionStatus = "error"
            /\ state'.error = "Error processing stream"
            /\ state'.error # Null
            /\ ~state'.isStreaming
            /\ state'.data = state.data
            /\ last'.notes =
                 << [cb |-> "onStatusChange", payload |-> JSString("error")],
                    [cb |-> "onError", payload |-> JSString(state'.error)] >>
      ]_vars

\* the read failed after the record a1 had been merged in status connected
C18_Witness ==
    /\ last.op = "readfail"
    /\ sess[last.s].pc = "done"
    /\ sess[last.s].pos > 0
    /\ \A t \in Sessions \ {last.s} : sess[t].pc = "none"
    /\ state.connectionStatus = "error"
    /\ state.error = "Error processing stream"
    /\ ~state.isStreaming
    /\ state.data = [a |-> JSNumber(1)]
    /\ CountNotes(last.notes, "onError") = 1

\* the step just taken ended session s by completion: end of stream, or a
\* chunk holding a `[DONE]` sentinel or a finish record
CompletionStep(s) ==
    /\ last'.s = s
    /\ \/ last'.op = "eof"
       \/ /\ last'.op = "chunk"
          /\ \E i \in DOMAIN StepLines(s) : IsTerminator(StepLines(s)[i])

\* C19: onComplete is invoked exactly once by the step that completes a
\* session (end of stream, `[DONE]` sentinel or finish record), that step
\* ends the session for good, and no other step invokes it: not a failed
\* request, a failed read, a cancellation handler, start, stop or reset.  At
\* end of stream without terminator the status is completed and isStreaming
\* is false.
C19_OnCompleteOncePerCompletion ==
    [][\A s \in Sessions :
         /\ CompletionStep(s)
            => /\ sess[s].pc = "read"
               /\ sess'[s].pc = "done"
               /\ CountNotes(last'.notes, "onComplete") = 1
               /\ mounted => /\ state'.connectionStatus = "completed"
                             /\ ~state'.isStreaming
         /\ (last'.s = s /\ ~CompletionStep(s))
            => ~HasNote(last'.notes, "onComplete")
         /\ (last'.s = 0) => ~HasNote(last'.notes, "onComplete")
         /\ (sess[s].pc = "done")
            => sess'[s].pc = "done" /\ last'.s # s
      ]_vars

\* a finish record completed the session: one onComplete, status completed
C19_Witness ==
    /\ last.op = "chunk"
    /\ sess[last.s].body = 5
    /\ sess[last.s].pc = "done"
    /\ CountNotes(last.notes, "onComplete") = 1
    /\ state.connectionStatus = "completed"
    /\ ~state.isStreaming

\* C20: startStreaming called while no session is in flight, in status idle,
\* completed, error or stopped, begins a new session: the accumulated result
\* is reset to empty, the error to null, isStreaming is true, the status is
\* connecting (announced by onStatusChange), and a new request is in flight.
C20_StartBeginsFreshSession ==
    [][( /\ last'.op = "start"
         /\ state.connectionStatus \in {"idle", "completed", "error", "stopped"}
         /\ \A s \in Sessions : ~InFlight(s) )
       => /\ state' = [data |-> EmptyObject, error |-> Null,
                       isStreaming |-> TRUE, connectionStatus |-> "connecting"]
          /\ last'.s \in Sessions
          /\ sess[last'.s].pc = "none"
          /\ sess'[last'.s].pc = "fetch"
          /\ abortControllerRef' = last'.s
          /\ last'.notes =
               << [cb |-> "onStatusChange", payload |-> JSString("connecting")] >>
      ]_vars

\* a blank line, or a non-blank line that does not begin with `data: `
IsIgnorable(line) == Trim(line) = <<>> \/ ~StartsWith(line, DataPrefix)

NotIgnorable(line) == ~IsIgnorable(line)

\* C21: a chunk holding blank lines or lines without the prefix `data: ` is
\* processed exactly as the same chunk without those lines, so the lines
\* after them are still processed; and a chunk holding only such lines
\* leaves the status, the accumulated result, the error and isStreaming
\* unchanged, invokes no callback, and the session goes on reading.
C21_UnrecognizedLineIsIgnored ==
    [][\A s \in Sessions :
         (ChunkStep(s) /\ \E i \in DOMAIN StepLines(s) : IsIgnorable(StepLines(s)[i]))
         => /\ StepResult(s) =
                 ProcessLines(Ctx(state), SelectSeq(StepLines(s), NotIgnorable))
            /\ (\A i \in DOMAIN StepLines(s) : IsIgnorable(StepLines(s)[i]))
               => /\ state' = state
                  /\ last'.notes = <<>>
                  /\ sess'[s].pc = "read"
      ]_vars

\* the body began with a blank line and a comment line: both were ignored,
\* the record a1 after them was merged, and nothing else changed
C21_Witness ==
    /\ last.op = "chunk"
    /\ sess[last.s].body = 8
    /\ sess[last.s].pos = Len(BodyList[8])
    /\ sess[last.s].pc = "read"
    /\ CountNotes(last.notes, "onData") = 1
    /\ Len(last.notes) = 1
    /\ state.data = [a |-> JSNumber(1)]
    /\ state.connectionStatus = "connected"
    /\ state.isStreaming
    /\ state.error = Null

\* the step just taken ended session s and announced a terminal status
EndedTerminal(s) ==
    /\ sess[s].pc = "done"
    /\ last.s = s
    /\ last.op \in SessionOps
    /\ \E i \in DOMAIN last.notes :
          /\ last.notes[i].cb = "onStatusChange"
          /\ last.notes[i].payload \in {JSString(t) : t \in TerminalStatuses}
    /\ mounted => state.connectionStatus \in TerminalStatuses

\* C22: over a transport that settles every pending fetch and read, every
\* session that is in flight eventually ends with a terminal status
\* (completed, error or stopped), and the status of a mounted hook never
\* stays connecting or connected forever.
C22_EverySessionTerminates ==
    /\ \A s \in Sessions : InFlight(s) ~> EndedTerminal(s)
    /\ (mounted /\ state.connectionStatus \in {"connecting", "connected"})
          ~> (~mounted \/ state.connectionStatus \in TerminalStatuses)

\* both sessions of the run have ended, the second one by completion
C22_Witness ==
    /\ \A s \in Sessions : sess[s].pc = "done"
    /\ EndedTerminal(MaxSessions)
    /\ last.op = "eof"
    /\ mounted
    /\ state.connectionStatus = "completed"

\* C23: the status changes to connected only from connecting, and to
\* completed only from connected; in particular it never changes to
\* connected or completed from idle, stopped or error.
C23_LifecycleOrder ==
    [][/\ (state'.connectionStatus = "connected"
             /\ state.connectionStatus # "connected")
          => state.connectionStatus = "connecting"
       /\ (state'.connectionStatus = "completed"
             /\ state.connectionStatus # "completed")
          => state.connectionStatus = "connected"
      ]_vars

\* C24: in every reachable state of a mounted hook, isStreaming is true
\* exactly when the status is connecting or connected.
C24_StreamingIffActiveStatus ==
    mounted =>
        (state.isStreaming <=> state.connectionStatus \in {"connecting", "connected"})

\* C25: stopStreaming changes only isStreaming and the status: the step
\* itself leaves the accumulated result and the error as they were, and
\* while the status is stopped no later step other than startStreaming or
\* reset changes them (a session step counts when its session was in flight
\* at a stop, so the data it would change is the data of the cancelled run).
C25_StopKeepsDataAndError ==
    [][/\ (last'.op = "stop")
          => state'.data = state.data /\ state'.error = state.error
       /\ ( /\ state.connectionStatus = "stopped"
            /\ last'.op \notin {"start", "reset"}
            /\ last'.s # 0 => sess[last'.s].cancelled )
          => state'.data = state.data /\ state'.error = state.error
      ]_vars

====
